---- MODULE Spec2Model ----
(***************************************************************************)
(* Model of the snesUniversal sketch (src/snesUniversal/snesUniversal.ino):*)
(* the SD-card loader of the key mappings, the special-key conversion, the *)
(* per-poll dispatch of the controller's buttons to the keyboard or the    *)
(* gamepad, and the up/down selection of the active mapping.               *)
(*                                                                         *)
(* Bytes are the integers 0..255; the sketch's unsigned int is 16 bits     *)
(* wide (ATmega32u4).  A file is the sequence of its bytes, read through a *)
(* cursor (1-based here).  Arrays keep the source's 0-based indices.       *)
(***************************************************************************)
EXTENDS Integers, Sequences, FiniteSets, TLC

VARIABLES
    sdFiles,      \* paths of the files that SD.open finds on the SD card
    configFile,   \* bytes of the config file on the SD card
    nameFile,     \* bytes of the name file on the SD card
    mappings,     \* mappings[j][i]: key of button i in configuration j
    names,        \* names[j]: display name of configuration j
    configCount,  \* number of configurations
    mapIndex,     \* index of the mapping in use
    inputs,       \* the controller data of the latest poll
    upBtn,        \* level of the up pushbutton's pin
    downBtn,      \* level of the down pushbutton's pin
    lcd,          \* what the display shows
    pc,           \* where the sketch is: setup(), or a place in loop()
    calls,        \* trace: the sink calls made by the latest poll, in order
    pollIndex,    \* trace: mapIndex during the latest poll
    runDir,       \* trace: direction of the current run of transitions
    runStart,     \* trace: mapIndex before the first transition of the run
    runLen,       \* trace: transitions in the current run
    held,         \* trace: what the calls made so far leave held at the sinks
    trace         \* trace: the latest polls compared, and the presses of the
                  \* two pushbuttons

vars == <<sdFiles, configFile, nameFile, mappings, names, configCount, mapIndex, inputs,
          upBtn, downBtn, lcd, pc, calls, pollIndex, runDir, runStart, runLen,
          held, trace>>

----------------------------------------------------------------------------
(* Program constants *)

SNES_NUM_BUTTONS == 12
LCD_COLS == 16

LOW == "LOW"
HIGH == "HIGH"

CONFIG_FILE_PATH == "SNESCO~1.txt"
NAME_FILE_PATH == "names.txt"

\* bytes of SRAM of the ATmega32u4
RAM_BYTES == 2560

CHAR_F1 == 33
CHAR_F2 == 64
CHAR_F3 == 35
CHAR_F4 == 36
CHAR_F5 == 37
CHAR_F6 == 94
CHAR_F7 == 38
CHAR_F8 == 42
CHAR_F9 == 40
CHAR_F10 == 41
CHAR_F11 == 95
CHAR_F12 == 43
CHAR_ESC == 69
CHAR_SHIFT == 83
CHAR_CTRL == 67
CHAR_ALT == 65
CHAR_TAB == 84
CHAR_ENTER == 78
CHAR_BACKSPACE == 66
CHAR_UP == 85
CHAR_DOWN == 68
CHAR_LEFT == 76
CHAR_RIGHT == 82

\* '~': no mapping for the button
TILDE == 126

\* '0'
ASCII_ZERO == 48

\* The key identifiers of the Arduino Keyboard library, as setButton hands
\* them to Keyboard.press and Keyboard.release.
KEY_LEFT_CTRL == 128
KEY_LEFT_SHIFT == 129
KEY_LEFT_ALT == 130
KEY_UP_ARROW == 218
KEY_DOWN_ARROW == 217
KEY_LEFT_ARROW == 216
KEY_RIGHT_ARROW == 215
KEY_BACKSPACE == 178
KEY_TAB == 179
KEY_RETURN == 176
KEY_ESC == 177
KEY_F1 == 194
KEY_F2 == 195
KEY_F3 == 196
KEY_F4 == 197
KEY_F5 == 198
KEY_F6 == 199
KEY_F7 == 200
KEY_F8 == 201
KEY_F9 == 202
KEY_F10 == 203
KEY_F11 == 204
KEY_F12 == 205

\* "USB Gamepad"
GAMEPAD_NAME == <<85, 83, 66, 32, 71, 97, 109, 101, 112, 97, 100>>

Byte == 0..255

\* unsigned int arithmetic
UInt16(x) == x % 65536

\* a value stored in a char, as the byte it holds
ToByte(x) == x % 256

----------------------------------------------------------------------------
(* Bounds and the inputs drawn from them *)

\* most configurations a config file declares
MaxConfigs == 2

\* controller data: nothing held, B held, all twelve held, a mix with a bit
\* above the twelve buttons set
Masks == {0, 1, 4095, 6746}

\* a Windows line ending
CRLF == <<13, 10>>

\* "~~~~~~~~~~~~", "ABCDEFGHIJKL" and "zU~!x+~NRq_S"
LineUnmapped == [i \in 1..SNES_NUM_BUTTONS |-> TILDE]
LineLetters == [i \in 1..SNES_NUM_BUTTONS |-> 64 + i]
LineMixed == <<122, 85, 126, 33, 120, 43, 126, 78, 82, 113, 95, 83>>
CodeLines == {LineUnmapped, LineLetters, LineMixed}

\* "Game <j>", padded with spaces to the display's width
NameLine(j) ==
    [i \in 1..LCD_COLS |->
        IF i <= 5 THEN <<71, 97, 109, 101, 32>>[i]
        ELSE IF i = 6 THEN ASCII_ZERO + j ELSE 32]

RECURSIVE Concat(_)
Concat(ss) == IF ss = <<>> THEN <<>> ELSE Head(ss) \o Concat(Tail(ss))

\* the config file of the given lines: the count, then every line, each
\* followed by a line ending
ConfigStream(lines) ==
    <<ASCII_ZERO + Len(lines)>> \o CRLF
        \o Concat([j \in 1..Len(lines) |-> lines[j] \o CRLF])

\* the name file of k configurations
NameStream(k) == Concat([j \in 1..k |-> NameLine(j - 1) \o CRLF])

\* the sequences of k lines drawn from CodeLines
LineSeqs(k) == [1..k -> CodeLines]

\* what an uninitialised byte of a buffer may hold
UninitBytes == {0, 85}

----------------------------------------------------------------------------
(* File reads *)

Min(a, b) == IF a < b THEN a ELSE b

\* SD.open(path): the bytes the File gives; a File that did not open gives
\* none: its read() returns -1 and its read(buf, n) writes nothing
OpenFile(path) ==
    IF path \notin sdFiles THEN <<>>
    ELSE IF path = CONFIG_FILE_PATH THEN configFile ELSE nameFile

\* File::read(): the byte at the cursor, or -1 at the end of the file
ReadByte(f, pos) == IF pos <= Len(f) THEN f[pos] ELSE -1

\* File::read(buf, n): the buffer after the read; bytes past the end of the
\* file are not written, and keep what the fresh buffer held
ReadBuf(f, pos, n, junk) ==
    [i \in 0..(n - 1) |-> IF pos + i <= Len(f) THEN f[pos + i] ELSE junk]

\* the cursor after a read of n bytes
CursorAfter(f, pos, n) == Min(pos + n, Len(f) + 1)

\* variant: a line ending of one byte
skipLineEnding_OneByte(f, pos) == CursorAfter(f, pos, 1)

\* skipLineEnding(f): read two bytes and drop them
skipLineEnding(f, pos) == CursorAfter(f, pos, 2)

----------------------------------------------------------------------------
(* Special keys *)

\* variant: the case of CHAR_ALT lacks its break and falls into the next
convertSpecialKey_Fallthrough(c) ==
    CASE c = CHAR_ALT -> KEY_BACKSPACE
      [] c = CHAR_BACKSPACE -> KEY_BACKSPACE
      [] c = CHAR_CTRL -> KEY_LEFT_CTRL
      [] c = CHAR_ENTER -> KEY_RETURN
      [] c = CHAR_ESC -> KEY_ESC
      [] c = CHAR_SHIFT -> KEY_LEFT_SHIFT
      [] c = CHAR_TAB -> KEY_TAB
      [] c = CHAR_UP -> KEY_UP_ARROW
      [] c = CHAR_DOWN -> KEY_DOWN_ARROW
      [] c = CHAR_LEFT -> KEY_LEFT_ARROW
      [] c = CHAR_RIGHT -> KEY_RIGHT_ARROW
      [] c = CHAR_F1 -> KEY_F1
      [] c = CHAR_F2 -> KEY_F2
      [] c = CHAR_F3 -> KEY_F3
      [] c = CHAR_F4 -> KEY_F4
      [] c = CHAR_F5 -> KEY_F5
      [] c = CHAR_F6 -> KEY_F6
      [] c = CHAR_F7 -> KEY_F7
      [] c = CHAR_F8 -> KEY_F8
      [] c = CHAR_F9 -> KEY_F9
      [] c = CHAR_F10 -> KEY_F10
      [] c = CHAR_F11 -> KEY_F11
      [] c = CHAR_F12 -> KEY_F12
      [] OTHER -> c

\* variant: the letters are matched in either case
convertSpecialKey_AnyCase(c) ==
    LET u == IF c \in 97..122 THEN c - 32 ELSE c
    IN
    CASE u = CHAR_ALT -> KEY_LEFT_ALT
      [] u = CHAR_BACKSPACE -> KEY_BACKSPACE
      [] u = CHAR_CTRL -> KEY_LEFT_CTRL
      [] u = CHAR_ENTER -> KEY_RETURN
      [] u = CHAR_ESC -> KEY_ESC
      [] u = CHAR_SHIFT -> KEY_LEFT_SHIFT
      [] u = CHAR_TAB -> KEY_TAB
      [] u = CHAR_UP -> KEY_UP_ARROW
      [] u = CHAR_DOWN -> KEY_DOWN_ARROW
      [] u = CHAR_LEFT -> KEY_LEFT_ARROW
      [] u = CHAR_RIGHT -> KEY_RIGHT_ARROW
      [] u = CHAR_F1 -> KEY_F1
      [] u = CHAR_F2 -> KEY_F2
      [] u = CHAR_F3 -> KEY_F3
      [] u = CHAR_F4 -> KEY_F4
      [] u = CHAR_F5 -> KEY_F5
      [] u = CHAR_F6 -> KEY_F6
      [] u = CHAR_F7 -> KEY_F7
      [] u = CHAR_F8 -> KEY_F8
      [] u = CHAR_F9 -> KEY_F9
      [] u = CHAR_F10 -> KEY_F10
      [] u = CHAR_F11 -> KEY_F11
      [] u = CHAR_F12 -> KEY_F12
      [] OTHER -> c

\* one pass of the switch of convertSpecialKeys over a byte of the line
convertSpecialKey(c) ==
    CASE c = CHAR_ALT -> KEY_LEFT_ALT
      [] c = CHAR_BACKSPACE -> KEY_BACKSPACE
      [] c = CHAR_CTRL -> KEY_LEFT_CTRL
      [] c = CHAR_ENTER -> KEY_RETURN
      [] c = CHAR_ESC -> KEY_ESC
      [] c = CHAR_SHIFT -> KEY_LEFT_SHIFT
      [] c = CHAR_TAB -> KEY_TAB
      [] c = CHAR_UP -> KEY_UP_ARROW
      [] c = CHAR_DOWN -> KEY_DOWN_ARROW
      [] c = CHAR_LEFT -> KEY_LEFT_ARROW
      [] c = CHAR_RIGHT -> KEY_RIGHT_ARROW
      [] c = CHAR_F1 -> KEY_F1
      [] c = CHAR_F2 -> KEY_F2
      [] c = CHAR_F3 -> KEY_F3
      [] c = CHAR_F4 -> KEY_F4
      [] c = CHAR_F5 -> KEY_F5
      [] c = CHAR_F6 -> KEY_F6
      [] c = CHAR_F7 -> KEY_F7
      [] c = CHAR_F8 -> KEY_F8
      [] c = CHAR_F9 -> KEY_F9
      [] c = CHAR_F10 -> KEY_F10
      [] c = CHAR_F11 -> KEY_F11
      [] c = CHAR_F12 -> KEY_F12
      [] OTHER -> c

\* variant: the loop stops one button short
convertSpecialKeys_SkipLast(line) ==
    [i \in 0..(SNES_NUM_BUTTONS - 1) |->
        IF i < SNES_NUM_BUTTONS - 1 THEN ToByte(convertSpecialKey(line[i]))
        ELSE line[i]]

\* convertSpecialKeys(mappings): every button's byte of the line, in place
convertSpecialKeys(line) ==
    [i \in 0..(SNES_NUM_BUTTONS - 1) |-> ToByte(convertSpecialKey(line[i]))]

----------------------------------------------------------------------------
(* loadMappings *)

\* the for loop of loadMappings from iteration i on: cpos and npos are the
\* cursors of the config and the name file, maps and nms the tables so far
RECURSIVE LoadLoop(_, _, _, _, _, _, _)
LoadLoop(i, count, cpos, npos, maps, nms, junk) ==
    IF i >= count THEN [mappings |-> maps, names |-> nms]
    ELSE
        LET cf == OpenFile(CONFIG_FILE_PATH)
            nf == OpenFile(NAME_FILE_PATH)
            line == ReadBuf(cf, cpos, SNES_NUM_BUTTONS, junk)
            name == ReadBuf(nf, npos, LCD_COLS, junk)
            cpos1 == CursorAfter(cf, cpos, SNES_NUM_BUTTONS)
            npos1 == CursorAfter(nf, npos, LCD_COLS)
        IN  LoadLoop(i + 1, count,
                     skipLineEnding(cf, cpos1),
                     skipLineEnding(nf, npos1),
                     [j \in 0..i |-> IF j = i THEN convertSpecialKeys(line)
                                              ELSE maps[j]],
                     [j \in 0..i |-> IF j = i THEN name ELSE nms[j]],
                     junk)

\* the number of configurations: the first byte of the config file, less '0'
ReadCount == UInt16(ReadByte(OpenFile(CONFIG_FILE_PATH), 1) - ASCII_ZERO)

\* the bytes loadMappings asks of the heap for count configurations: the two
\* arrays of pointers, and a line and a name for each configuration
HeapNeeded(count) ==
    2 * count + 2 * (count + 1) + count * (SNES_NUM_BUTTONS + LCD_COLS)

\* new gives a null pointer when the heap cannot hold what is asked: with
\* more asked than the SRAM holds, at least one of the allocations fails
AllocFails(count) == HeapNeeded(count) > RAM_BYTES

\* loadMappings(): the tables read from the two files; the name of the
\* gamepad configuration follows the names read
LoadResult(junk) ==
    LET count == ReadCount
        cf == OpenFile(CONFIG_FILE_PATH)
        t == LoadLoop(0, count,
                      skipLineEnding(cf, CursorAfter(cf, 1, 1)),
                      1, <<>>, <<>>, junk)
    IN  [configCount |-> count,
         mappings |-> t.mappings,
         names |-> [j \in 0..count |->
                       IF j = count THEN GAMEPAD_NAME ELSE t.names[j]]]

\* the memory lcd.print walks from names[index] on: the LCD_COLS bytes of a
\* name read from the file, which no NUL follows, and then what lies behind
\* the buffer on the heap; or the string literal of the gamepad's name with
\* its NUL; an index past the table reads whatever lies there
NameMemory(index, nms, junk) ==
    IF index \notin DOMAIN nms THEN <<junk, 0>>
    ELSE IF DOMAIN nms[index] = 0..(LCD_COLS - 1)
         THEN [n \in 1..LCD_COLS |-> nms[index][n - 1]] \o <<junk, 0>>
         ELSE nms[index] \o <<0>>

\* lcd.print(char*): the characters before the first NUL
Printed(mem) ==
    LET nuls == {n \in 1..Len(mem) : mem[n] = 0}
    IN  IF nuls = {} THEN mem
        ELSE SubSeq(mem, 1, (CHOOSE n \in nuls : \A m \in nuls : n <= m) - 1)

\* updateLCD(): the configuration's number on the first row, and on the
\* second what the display's LCD_COLS columns show of the name printed
updateLCD(index, nms, junk) ==
    LET text == Printed(NameMemory(index, nms, junk))
    IN  [number |-> index,
         name |-> SubSeq(text, 1, Min(Len(text), LCD_COLS))]

----------------------------------------------------------------------------
(* The sinks *)

GamepadCall(btn, state) ==
    [sink |-> "gamepad", op |-> "setButton", btn |-> btn,
     arg |-> IF state THEN 1 ELSE 0]

\* btn records the button the call was made for
KeyboardCall(btn, state, key) ==
    [sink |-> "keyboard", op |-> IF state THEN "press" ELSE "release",
     btn |-> btn, arg |-> key]

\* currentMap: mappings[mapIndex]; an index past the table reads whatever
\* lies there
currentMap(junk) ==
    IF mapIndex \in DOMAIN mappings THEN mappings[mapIndex]
    ELSE [i \in 0..(SNES_NUM_BUTTONS - 1) |-> junk]

\* variant: the gamepad test is off by one slot
setButton_OffByOne(btn, state, junk) ==
    IF mapIndex = configCount - 1 THEN <<GamepadCall(btn, state)>>
    ELSE IF currentMap(junk)[btn] # TILDE
         THEN <<KeyboardCall(btn, state, currentMap(junk)[btn])>>
         ELSE <<>>

\* variant: the tilde is not tested for
setButton_NoTilde(btn, state, junk) ==
    IF mapIndex = configCount THEN <<GamepadCall(btn, state)>>
    ELSE <<KeyboardCall(btn, state, currentMap(junk)[btn])>>

\* variant: press and release are swapped
setButton_Swapped(btn, state, junk) ==
    IF mapIndex = configCount THEN <<GamepadCall(btn, state)>>
    ELSE IF currentMap(junk)[btn] # TILDE
         THEN <<KeyboardCall(btn, ~state, currentMap(junk)[btn])>>
         ELSE <<>>

\* variant: a button whose state is that of the poll before gets no call
setButton_EdgeOnly(btn, state, junk) ==
    IF pollIndex # -1 /\ ((inputs \div (2 ^ btn)) % 2 = 1) = state THEN <<>>
    ELSE IF mapIndex = configCount THEN <<GamepadCall(btn, state)>>
    ELSE IF currentMap(junk)[btn] # TILDE
         THEN <<KeyboardCall(btn, state, currentMap(junk)[btn])>>
         ELSE <<>>

\* variant: a button that was down at the poll before is not pressed again
setButton_PressOnce(btn, state, junk) ==
    IF pollIndex # -1 /\ state /\ (inputs \div (2 ^ btn)) % 2 = 1 THEN <<>>
    ELSE IF mapIndex = configCount THEN <<GamepadCall(btn, state)>>
    ELSE IF currentMap(junk)[btn] # TILDE
         THEN <<KeyboardCall(btn, state, currentMap(junk)[btn])>>
         ELSE <<>>

\* setButton(btn, state): the sink calls it makes
setButton(btn, state, junk) ==
    IF mapIndex = configCount THEN <<GamepadCall(btn, state)>>
    ELSE IF currentMap(junk)[btn] # TILDE
         THEN <<KeyboardCall(btn, state, currentMap(junk)[btn])>>
         ELSE <<>>

RECURSIVE Pow2(_)
Pow2(n) == IF n = 0 THEN 1 ELSE 2 * Pow2(n - 1)

\* inputs & (1 << i), as the bool setButton receives
ButtonBit(data, i) == (data \div Pow2(i)) % 2 = 1

\* the for loop of loop() over the buttons, from button i on
RECURSIVE DispatchFrom(_, _, _)
DispatchFrom(i, data, junk) ==
    IF i >= SNES_NUM_BUTTONS THEN <<>>
    ELSE setButton(i, ButtonBit(data, i), junk)
             \o DispatchFrom(i + 1, data, junk)

----------------------------------------------------------------------------
(* The selection of the mapping *)

\* variant: the wrap is tested one slot too late
AdvanceIndex_WrapLate(index, count) ==
    LET next == UInt16(index + 1)
    IN  IF next = UInt16(count + 2) THEN 0 ELSE next

\* variant: the wrap is tested against configCount, skipping the last slot
AdvanceIndex_WrapEarly(index, count) ==
    LET next == UInt16(index + 1)
    IN  IF next >= count THEN 0 ELSE next

\* if (++mapIndex == configCount + 1) mapIndex = 0;
AdvanceIndex(index, count) ==
    LET next == UInt16(index + 1)
    IN  IF next = UInt16(count + 1) THEN 0 ELSE next

\* variant: the decrement without the test for 0
RetreatIndex_Underflow(index, count) == UInt16(index - 1)

\* variant: from 0 to the last configuration read, not to the last slot
RetreatIndex_ShortWrap(index, count) ==
    LET prev == UInt16(index - 1)
    IN  IF index = 0 THEN UInt16(count - 1) ELSE prev

\* if (mapIndex-- == 0) mapIndex = configCount;
RetreatIndex(index, count) ==
    LET prev == UInt16(index - 1)
    IN  IF index = 0 THEN count ELSE prev

\* trace: a transition in direction dir continues the run of transitions in
\* that direction, or starts a new run when the direction changes or the run
\* has gone once around the table
RunStep(dir) ==
    IF runDir = dir /\ runLen < configCount + 1
    THEN /\ runLen' = runLen + 1
         /\ UNCHANGED <<runDir, runStart>>
    ELSE /\ runDir' = dir
         /\ runStart' = mapIndex
         /\ runLen' = 1

----------------------------------------------------------------------------
(* The sketch *)

\* the globals as the sketch declares them, the pushbuttons released
Globals ==
    /\ mappings = <<>>
    /\ names = <<>>
    /\ configCount = 0
    /\ mapIndex = 0
    /\ inputs = 0
    /\ upBtn = HIGH
    /\ downBtn = HIGH
    /\ lcd = [number |-> -1, name |-> <<>>]
    /\ pc = "setup"
    /\ calls = <<>>
    /\ pollIndex = -1
    /\ runDir = "none"
    /\ runStart = 0
    /\ runLen = 0
    /\ held = [keys |-> {}, buttons |-> {}]
    /\ trace = [repeat |-> FALSE, up |-> "released", down |-> "released"]

\* an SD card that holds both files
InitWith(cf, nf) ==
    /\ sdFiles = {CONFIG_FILE_PATH, NAME_FILE_PATH}
    /\ configFile = cf
    /\ nameFile = nf
    /\ Globals

\* an SD card with a well-formed config file and its name file
Init ==
    \E k \in 0..MaxConfigs :
        \E lines \in LineSeqs(k) :
            InitWith(ConfigStream(lines), NameStream(k))

\* setup(): initHardware, loadMappings, updateLCD.  When an allocation of
\* loadMappings fails, the sketch writes through the null pointer it got:
\* from there its behaviour is undefined, and pc = "undefined" stands for
\* whatever it does
Setup ==
    /\ pc = "setup"
    /\ IF AllocFails(ReadCount)
       THEN /\ configCount' = ReadCount
            /\ pc' = "undefined"
            /\ UNCHANGED <<mappings, names, lcd>>
       ELSE /\ \E junk \in UninitBytes :
                LET r == LoadResult(junk)
                IN  /\ configCount' = r.configCount
                    /\ mappings' = r.mappings
                    /\ names' = r.names
                    /\ lcd' = updateLCD(mapIndex, r.names, junk)
            /\ pc' = "poll"
    /\ UNCHANGED <<sdFiles, configFile, nameFile, mapIndex, inputs, upBtn, downBtn,
                   calls, pollIndex, runDir, runStart, runLen>>

\* loop(): get the data from the controller, and press or release the
\* respective keys
Poll ==
    /\ pc = "poll"
    /\ \E data \in Masks, junk \in UninitBytes :
        /\ inputs' = data
        /\ calls' = DispatchFrom(0, data, junk)
    /\ pollIndex' = mapIndex
    /\ pc' = "readUp"
    /\ UNCHANGED <<sdFiles, configFile, nameFile, mappings, names, configCount,
                   mapIndex, upBtn, downBtn, lcd, runDir, runStart, runLen>>

\* variant: the down pushbutton is read after the up branch too
ReadUp_NoElse ==
    /\ pc = "readUp"
    /\ IF upBtn = LOW
       THEN /\ mapIndex' = AdvanceIndex(mapIndex, configCount)
            /\ \E junk \in UninitBytes : lcd' = updateLCD(mapIndex', names, junk)
            /\ RunStep("advance")
       ELSE UNCHANGED <<mapIndex, lcd, runDir, runStart, runLen>>
    /\ pc' = "readDown"
    /\ UNCHANGED <<sdFiles, configFile, nameFile, mappings, names, configCount,
                   inputs, upBtn, downBtn, calls, pollIndex>>

\* loop(): if (digitalRead(UP_BTN) == LOW) { ...; updateLCD(); }
ReadUp ==
    /\ pc = "readUp"
    /\ IF upBtn = LOW
       THEN /\ mapIndex' = AdvanceIndex(mapIndex, configCount)
            /\ \E junk \in UninitBytes : lcd' = updateLCD(mapIndex', names, junk)
            /\ RunStep("advance")
            /\ pc' = "waitDown"
       ELSE /\ pc' = "readDown"
            /\ UNCHANGED <<mapIndex, lcd, runDir, runStart, runLen>>
    /\ UNCHANGED <<sdFiles, configFile, nameFile, mappings, names, configCount,
                   inputs, upBtn, downBtn, calls, pollIndex>>

\* variant: the down branch leaves the display as it is
ReadDown_NoRender ==
    /\ pc = "readDown"
    /\ IF downBtn = LOW
       THEN /\ mapIndex' = RetreatIndex(mapIndex, configCount)
            /\ RunStep("retreat")
       ELSE UNCHANGED <<mapIndex, runDir, runStart, runLen>>
    /\ pc' = "waitDown"
    /\ UNCHANGED <<sdFiles, configFile, nameFile, mappings, names, configCount,
                   inputs, upBtn, downBtn, lcd, calls, pollIndex>>

\* loop(): else if (digitalRead(DOWN_BTN) == LOW) { ...; updateLCD(); }
ReadDown ==
    /\ pc = "readDown"
    /\ IF downBtn = LOW
       THEN /\ mapIndex' = RetreatIndex(mapIndex, configCount)
            /\ \E junk \in UninitBytes : lcd' = updateLCD(mapIndex', names, junk)
            /\ RunStep("retreat")
       ELSE UNCHANGED <<mapIndex, lcd, runDir, runStart, runLen>>
    /\ pc' = "waitDown"
    /\ UNCHANGED <<sdFiles, configFile, nameFile, mappings, names, configCount,
                   inputs, upBtn, downBtn, calls, pollIndex>>

\* variant: the wait tests the down pin for HIGH
WaitDown_Inverted ==
    /\ pc = "waitDown"
    /\ pc' = IF downBtn = HIGH THEN "waitDown" ELSE "waitUp"
    /\ UNCHANGED <<sdFiles, configFile, nameFile, mappings, names, configCount,
                   mapIndex, inputs, upBtn, downBtn, lcd, calls, pollIndex,
                   runDir, runStart, runLen>>

\* loop(): while (digitalRead(DOWN_BTN) == LOW || ...) {}
WaitDown ==
    /\ pc = "waitDown"
    /\ pc' = IF downBtn = LOW THEN "waitDown" ELSE "waitUp"
    /\ UNCHANGED <<sdFiles, configFile, nameFile, mappings, names, configCount,
                   mapIndex, inputs, upBtn, downBtn, lcd, calls, pollIndex,
                   runDir, runStart, runLen>>

\* variant: the mappings are loaded again at the end of every loop()
WaitUp_Reload ==
    /\ pc = "waitUp"
    /\ pc' = IF upBtn = LOW THEN "waitDown" ELSE "setup"
    /\ UNCHANGED <<sdFiles, configFile, nameFile, mappings, names, configCount,
                   mapIndex, inputs, upBtn, downBtn, lcd, calls, pollIndex,
                   runDir, runStart, runLen>>

\* variant: the wait is for the down pushbutton only
WaitUp_DownOnly ==
    /\ pc = "waitUp"
    /\ pc' = "poll"
    /\ UNCHANGED <<sdFiles, configFile, nameFile, mappings, names, configCount,
                   mapIndex, inputs, upBtn, downBtn, lcd, calls, pollIndex,
                   runDir, runStart, runLen>>

\* loop(): while (... || digitalRead(UP_BTN) == LOW) {}, and the return that
\* starts the next loop()
WaitUp ==
    /\ pc = "waitUp"
    /\ pc' = IF upBtn = LOW THEN "waitDown" ELSE "poll"
    /\ UNCHANGED <<sdFiles, configFile, nameFile, mappings, names, configCount,
                   mapIndex, inputs, upBtn, downBtn, lcd, calls, pollIndex,
                   runDir, runStart, runLen>>

\* the up pushbutton is pressed or released
UpButton ==
    /\ upBtn' = IF upBtn = LOW THEN HIGH ELSE LOW
    /\ UNCHANGED <<sdFiles, configFile, nameFile, mappings, names, configCount,
                   mapIndex, inputs, downBtn, lcd, pc, calls, pollIndex,
                   runDir, runStart, runLen>>

\* the down pushbutton is pressed or released
DownButton ==
    /\ downBtn' = IF downBtn = LOW THEN HIGH ELSE LOW
    /\ UNCHANGED <<sdFiles, configFile, nameFile, mappings, names, configCount,
                   mapIndex, inputs, upBtn, lcd, pc, calls, pollIndex,
                   runDir, runStart, runLen>>

\* the traces of the sinks and of the presses are followed by the
\* specifications that need them (below), and left alone by the others
Untraced == UNCHANGED <<held, trace>>

Next ==
    \/ Setup /\ Untraced
    \/ Poll /\ Untraced
    \/ ReadUp /\ Untraced
    \/ ReadDown /\ Untraced
    \/ WaitDown /\ Untraced
    \/ WaitUp /\ Untraced
    \/ UpButton /\ Untraced
    \/ DownButton /\ Untraced

Spec == Init /\ [][Next]_vars

\* trace.repeat: the latest poll read the data, and ran under the mapping,
\* of the poll before it
TracePoll ==
    /\ trace' = [trace EXCEPT
                    !.repeat = pollIndex = mapIndex /\ inputs' = inputs]
    /\ UNCHANGED held

\* trace.up and trace.down follow one press of a pushbutton: "released", then
\* "unread" from the press on, "read" once the wait of loop() has read the
\* pin LOW, "acted" once the press has changed the mapping, "twice" if it
\* did so again
Acted(press) == IF press \in {"acted", "twice"} THEN "twice" ELSE "acted"

TraceReadUp ==
    /\ trace' = IF upBtn = LOW THEN [trace EXCEPT !.up = Acted(@)] ELSE trace
    /\ UNCHANGED held

TraceReadDown ==
    /\ trace' = IF downBtn = LOW THEN [trace EXCEPT !.down = Acted(@)]
                 ELSE trace
    /\ UNCHANGED held

TraceWaitDown ==
    /\ trace' = IF downBtn = LOW /\ trace.down = "unread"
                 THEN [trace EXCEPT !.down = "read"] ELSE trace
    /\ UNCHANGED held

TraceWaitUp ==
    /\ trace' = IF upBtn = LOW /\ trace.up = "unread"
                 THEN [trace EXCEPT !.up = "read"] ELSE trace
    /\ UNCHANGED held

TraceUpButton ==
    /\ trace' = [trace EXCEPT
                    !.up = IF upBtn = HIGH THEN "unread" ELSE "released"]
    /\ UNCHANGED held

TraceDownButton ==
    /\ trace' = [trace EXCEPT
                    !.down = IF downBtn = HIGH THEN "unread" ELSE "released"]
    /\ UNCHANGED held

\* the sketch, with the polls and the presses traced
TracedNext ==
    \/ Setup /\ Untraced
    \/ Poll /\ TracePoll
    \/ ReadUp /\ TraceReadUp
    \/ ReadDown /\ TraceReadDown
    \/ WaitDown /\ TraceWaitDown
    \/ WaitUp /\ TraceWaitUp
    \/ UpButton /\ TraceUpButton
    \/ DownButton /\ TraceDownButton

TracedSpec == Init /\ [][TracedNext]_vars

\* an SD card with no configuration, or with MaxConfigs of them, each of the
\* mixed line: the smallest table and the largest
LiveInit ==
    \E k \in {0, MaxConfigs} :
        InitWith(ConfigStream([j \in 1..k |-> LineMixed]), NameStream(k))

\* a step of the sketch; its place tells which one it is
SketchStep ==
    (Setup \/ Poll \/ ReadUp \/ ReadDown \/ WaitDown \/ WaitUp) /\ Untraced

\* the sketch as the processor runs it: it never stops taking steps, and
\* the wait of loop(), which reads the pins again and again without pause,
\* does not miss a pin that reads released time after time.  Nothing is
\* asked of the pushbuttons
LiveSpec ==
    /\ LiveInit
    /\ [][Next]_vars
    /\ WF_vars(SketchStep)
    /\ SF_vars(WaitDown /\ downBtn = HIGH /\ Untraced)
    /\ SF_vars(WaitUp /\ upBtn = HIGH /\ Untraced)

\* what is held at the sinks after the calls cs, in order: Keyboard.press
\* holds a key until Keyboard.release of that key, gamepad.setButton sets
\* or clears a button
RECURSIVE HeldAfter(_, _)
HeldAfter(h, cs) ==
    IF cs = <<>> THEN h
    ELSE LET c == Head(cs)
             h1 == IF c.sink = "gamepad"
                   THEN [h EXCEPT !.buttons = IF c.arg = 1 THEN @ \union {c.btn}
                                               ELSE @ \ {c.btn}]
                   ELSE [h EXCEPT !.keys = IF c.op = "press" THEN @ \union {c.arg}
                                            ELSE @ \ {c.arg}]
         IN  HeldAfter(h1, Tail(cs))

SinkPoll ==
    /\ held' = HeldAfter(held, calls')
    /\ UNCHANGED trace

\* the sketch, with the sinks followed
SinkNext ==
    \/ Setup /\ Untraced
    \/ Poll /\ SinkPoll
    \/ ReadUp /\ Untraced
    \/ ReadDown /\ Untraced
    \/ WaitDown /\ Untraced
    \/ WaitUp /\ Untraced
    \/ UpButton /\ Untraced
    \/ DownButton /\ Untraced

\* an SD card with the mixed line and the line of letters
SinkInit ==
    InitWith(ConfigStream(<<LineMixed, LineLetters>>), NameStream(2))

SinkSpec == SinkInit /\ [][SinkNext]_vars

\* an SD card whose one configuration holds the same byte for every button,
\* for every byte
BytesInit ==
    \E b \in Byte :
        InitWith(ConfigStream(<<[i \in 1..SNES_NUM_BUTTONS |-> b]>>),
                 NameStream(1))

BytesSpec == BytesInit /\ [][Next]_vars

\* a config file whose first byte is b, whatever b is
CountedStream(b, lines) ==
    <<b>> \o CRLF \o Concat([j \in 1..Len(lines) |-> lines[j] \o CRLF])

\* SD cards the loader has trouble with: the config file missing, the name
\* file missing, ':' or '/' where the count should be, the only line of the
\* config file cut after five buttons, the only name cut after four bytes
FaultyCards ==
    {[files |-> {NAME_FILE_PATH},
      config |-> <<>>, names |-> NameStream(1)],
     [files |-> {CONFIG_FILE_PATH},
      config |-> ConfigStream(<<LineMixed>>), names |-> <<>>],
     [files |-> {CONFIG_FILE_PATH, NAME_FILE_PATH},
      config |-> CountedStream(58, <<LineMixed>>), names |-> NameStream(1)],
     [files |-> {CONFIG_FILE_PATH, NAME_FILE_PATH},
      config |-> CountedStream(47, <<LineMixed>>), names |-> NameStream(1)],
     [files |-> {CONFIG_FILE_PATH, NAME_FILE_PATH},
      config |-> <<ASCII_ZERO + 1>> \o CRLF \o SubSeq(LineLetters, 1, 5),
      names |-> NameStream(1)],
     [files |-> {CONFIG_FILE_PATH, NAME_FILE_PATH},
      config |-> ConfigStream(<<LineLetters>>),
      names |-> SubSeq(NameLine(0), 1, 4)]}

FaultyInit ==
    \E card \in FaultyCards :
        /\ sdFiles = card.files
        /\ configFile = card.config
        /\ nameFile = card.names
        /\ Globals

FaultySpec == FaultyInit /\ [][Next]_vars

----------------------------------------------------------------------------
(* The selection of the mapping: claims *)

\* the number of slots of the table: the configurations read and the gamepad
TableSize == configCount + 1

\* C1: mapIndex starts at 0, and once the mappings are loaded it is an index
\* of the table in every state: 0 <= mapIndex <= configCount.
C1_IndexInRange ==
    /\ pc = "setup" => mapIndex = 0
    /\ pc # "setup" => mapIndex \in 0..configCount

\* the index has been advanced up to the gamepad slot of a table of three
C1_Witness ==
    /\ pc = "waitDown"
    /\ runDir = "advance"
    /\ configCount = 2
    /\ mapIndex = configCount

\* C2: a loop() that reads the up button pressed takes mapIndex from i to
\* (i + 1) mod size: from the last configuration read to the gamepad slot,
\* and from the gamepad slot to 0.
C2_AdvanceMod ==
    [][(pc = "readUp" /\ upBtn = LOW /\ pc' = "waitDown")
        => /\ mapIndex' = (mapIndex + 1) % TableSize
           /\ mapIndex = TableSize - 2 => mapIndex' = TableSize - 1
           /\ mapIndex = TableSize - 1 => mapIndex' = 0]_vars

\* two advances from the last configuration read: to the gamepad slot, then
\* around to 0
C2_Witness ==
    /\ runDir = "advance"
    /\ runLen = 2
    /\ configCount >= 1
    /\ runStart = TableSize - 2
    /\ mapIndex = 0

\* C3: a loop() that reads the up button released and the down button
\* pressed takes mapIndex from i to (i - 1 + size) mod size: from 0 to the
\* gamepad slot, never to a value the decrement below 0 leaves.
C3_RetreatMod ==
    [][(pc = "readDown" /\ downBtn = LOW /\ pc' = "waitDown")
        => /\ mapIndex' = (mapIndex - 1 + TableSize) % TableSize
           /\ mapIndex = 0 => mapIndex' = TableSize - 1
           /\ mapIndex' < TableSize]_vars

\* a retreat from 0 has led to the gamepad slot
C3_Witness ==
    /\ runDir = "retreat"
    /\ runLen = 1
    /\ runStart = 0
    /\ configCount >= 1
    /\ mapIndex = configCount

\* C4: size advances in a row, or size retreats in a row, lead back to the
\* index they started from, whatever the size and the start.
C4_FullCycle ==
    (runDir \in {"advance", "retreat"} /\ runLen = TableSize)
        => mapIndex = runStart

\* three retreats in a row in a table of three, started from 1
C4_Witness ==
    /\ runDir = "retreat"
    /\ configCount = 2
    /\ runLen = TableSize
    /\ runStart = 1
    /\ mapIndex = 1

----------------------------------------------------------------------------
(* The dispatch of a poll: claims *)

Buttons == 0..(SNES_NUM_BUTTONS - 1)

\* bit i of the controller data
BitOf(data, i) == (data \div (2 ^ i)) % 2

\* the calls of the latest poll made for button i, in order
CallsFor(i) == SelectSeq(calls, LAMBDA c : c.btn = i)

\* C5: a poll with the gamepad slot active hands every button i, in order,
\* to gamepad.setButton with bit i of the controller data, and calls the
\* keyboard for none; a poll with a configuration read from the file active
\* never calls the gamepad.
C5_RouteBySlot ==
    pc = "readUp" =>
        /\ mapIndex = configCount =>
              calls = [n \in 1..SNES_NUM_BUTTONS |->
                          [sink |-> "gamepad", op |-> "setButton",
                           btn |-> n - 1, arg |-> BitOf(inputs, n - 1)]]
        /\ mapIndex < configCount =>
              \A n \in 1..Len(calls) : calls[n].sink = "keyboard"

\* a poll of mixed controller data with the gamepad slot active, configurations
\* having been read
C5_Witness ==
    /\ pc = "readUp"
    /\ configCount >= 1
    /\ mapIndex = configCount
    /\ inputs = 6746
    /\ Len(calls) = SNES_NUM_BUTTONS

\* C6: a poll with a configuration read from the file active makes no call
\* for a button whose key is the tilde, and for every other button exactly
\* one keyboard call with the button's key: press when the button's bit is
\* set, release when it is clear.
C6_KeyboardPerButton ==
    (pc = "readUp" /\ mapIndex < configCount) =>
        \A i \in Buttons :
            IF mappings[mapIndex][i] = TILDE
            THEN CallsFor(i) = <<>>
            ELSE CallsFor(i) =
                    <<[sink |-> "keyboard",
                       op |-> IF BitOf(inputs, i) = 1 THEN "press" ELSE "release",
                       btn |-> i,
                       arg |-> mappings[mapIndex][i]]>>

\* a poll of mixed controller data under a configuration with mapped and
\* unmapped buttons, some mapped ones held and some not
C6_Witness ==
    /\ pc = "readUp"
    /\ mapIndex < configCount
    /\ \E i, j, k \in Buttons :
        /\ mappings[mapIndex][i] = TILDE
        /\ CallsFor(i) = <<>>
        /\ Len(CallsFor(j)) = 1 /\ CallsFor(j)[1].op = "press"
        /\ Len(CallsFor(k)) = 1 /\ CallsFor(k)[1].op = "release"

----------------------------------------------------------------------------
(* loadMappings: claims *)

\* the count a config file declares
DeclaredCount == configFile[1] - ASCII_ZERO

\* byte i of code line j of the config file: after the count and its line
\* ending, every line takes its SNES_NUM_BUTTONS bytes and a line ending
CodeByte(j, i) == configFile[3 + j * (SNES_NUM_BUTTONS + 2) + i + 1]

\* C7: from a well-formed config file that declares k configurations, k in
\* 1..9, and its name file, the load gives a table of k + 1 slots: k
\* configurations of exactly SNES_NUM_BUTTONS keys each, key i of
\* configuration j being the conversion of byte i of code line j, and the
\* gamepad slot after them.
C7_LoadTable ==
    (pc # "setup" /\ DeclaredCount \in 1..9) =>
        /\ configCount = DeclaredCount
        /\ DOMAIN mappings = 0..(DeclaredCount - 1)
        /\ DOMAIN names = 0..DeclaredCount
        /\ names[DeclaredCount] = GAMEPAD_NAME
        /\ \A j \in 0..(DeclaredCount - 1) :
            /\ DOMAIN mappings[j] = Buttons
            /\ \A i \in Buttons :
                mappings[j][i] = convertSpecialKey(CodeByte(j, i))

\* two configurations loaded, the second from the mixed line
C7_Witness ==
    /\ pc # "setup"
    /\ configCount = 2
    /\ DOMAIN mappings = {0, 1}
    /\ mappings[0] # mappings[1]
    /\ mappings[1][1] = KEY_UP_ARROW
    /\ mappings[1][2] = TILDE

\* "2 CRLF ~~~~~~~~~~~~ CRLF ABCDEFGHIJKL CRLF"
ScenarioA ==
    <<50, 13, 10,
      126, 126, 126, 126, 126, 126, 126, 126, 126, 126, 126, 126, 13, 10,
      65, 66, 67, 68, 69, 70, 71, 72, 73, 74, 75, 76, 13, 10>>

\* C8, as claimed: from scenario A the table has three slots, configuration 0
\* has every button unmapped and configuration 1 maps button i to the
\* literal character 'A' + i.
C8_Original ==
    (pc # "setup" /\ configFile = ScenarioA) =>
        /\ TableSize = 3
        /\ \A i \in Buttons : mappings[0][i] = TILDE
        /\ \A i \in Buttons : mappings[1][i] = 65 + i

\* C8, amended: from scenario A the table has three slots, configuration 0
\* has every button unmapped, and configuration 1 maps buttons 0 to 4 and 11
\* to Left-Alt, Backspace, Left-Ctrl, Down-arrow, Escape and Left-arrow (the
\* keys 'A', 'B', 'C', 'D', 'E' and 'L' are reserved for) and buttons 5 to 10
\* to the literal characters 'F' to 'K'.
C8_Amended ==
    (pc # "setup" /\ configFile = ScenarioA) =>
        /\ TableSize = 3
        /\ \A i \in Buttons : mappings[0][i] = TILDE
        /\ mappings[1] =
              [i \in Buttons |->
                  <<130, 178, 128, 217, 177, 70, 71, 72, 73, 74, 75, 216>>[i + 1]]

\* scenario A has been loaded
C8_Witness ==
    /\ pc # "setup"
    /\ configFile = ScenarioA
    /\ DOMAIN mappings = {0, 1}

\* the press or release of a key is among the calls
Pressed(cs, key) ==
    \E n \in 1..Len(cs) :
        cs[n].sink = "keyboard" /\ cs[n].op = "press" /\ cs[n].arg = key
Released(cs, key) ==
    \E n \in 1..Len(cs) :
        cs[n].sink = "keyboard" /\ cs[n].op = "release" /\ cs[n].arg = key

\* a poll with configuration 1 of scenario A active
PollOfScenarioB ==
    /\ pc = "poll"
    /\ pc' = "readUp"
    /\ configFile = ScenarioA
    /\ mapIndex = 1

\* the latest poll was one of controller data 1 under configuration 1
PolledButton0 == pollIndex = 1 /\ inputs = 1 /\ calls # <<>>

\* C9, as claimed: under configuration 1 of scenario A a poll of controller
\* data 1 calls Keyboard.press('A'), and the next poll, of controller data 0,
\* calls Keyboard.release('A').
C9_Original ==
    [][PollOfScenarioB =>
        /\ inputs' = 1 => Pressed(calls', 65)
        /\ (PolledButton0 /\ inputs' = 0) => Released(calls', 65)]_vars

\* C9, amended: under configuration 1 of scenario A a poll of controller data
\* 1 calls Keyboard.press(KEY_LEFT_ALT), the key 'A' is reserved for, and the
\* next poll, of controller data 0, calls Keyboard.release(KEY_LEFT_ALT).
C9_Amended ==
    [][PollOfScenarioB =>
        /\ inputs' = 1 => Pressed(calls', 130)
        /\ (PolledButton0 /\ inputs' = 0) => Released(calls', 130)]_vars

\* configuration 1 of scenario A is active, the latest poll was one of
\* controller data 1 under it and pressed Left-Alt, and the next poll is due
C9_Witness ==
    /\ pc = "poll"
    /\ configFile = ScenarioA
    /\ mapIndex = 1
    /\ PolledButton0
    /\ Pressed(calls, 130)

----------------------------------------------------------------------------
(* convertSpecialKeys: claims *)

ReservedChars ==
    {CHAR_F1, CHAR_F2, CHAR_F3, CHAR_F4, CHAR_F5, CHAR_F6, CHAR_F7, CHAR_F8,
     CHAR_F9, CHAR_F10, CHAR_F11, CHAR_F12, CHAR_ESC, CHAR_SHIFT, CHAR_CTRL,
     CHAR_ALT, CHAR_TAB, CHAR_ENTER, CHAR_BACKSPACE, CHAR_UP, CHAR_DOWN,
     CHAR_LEFT, CHAR_RIGHT}

\* C10: for every byte 0..255 at every button of a code line, the load gives
\* a key that is a byte: the tilde for the tilde, the byte itself for every
\* byte that is not reserved, and the tilde for no other byte; so a poll
\* skips a button if and only if its byte of the config file is the tilde.
C10_DecodeTotal ==
    (pc # "setup" /\ configCount = 1) =>
        \A i \in Buttons :
            LET raw == CodeByte(0, i)
                key == mappings[0][i]
            IN  /\ key \in Byte
                /\ raw = TILDE => key = TILDE
                /\ raw \notin ReservedChars => key = raw
                /\ key = TILDE => raw = TILDE
                /\ (pc = "readUp" /\ mapIndex = 0) =>
                      (CallsFor(i) = <<>> <=> raw = TILDE)

\* a poll with every button held skips every button of a line of tildes
C10_Witness ==
    /\ pc = "readUp"
    /\ mapIndex = 0
    /\ configCount = 1
    /\ inputs = 4095
    /\ \A i \in Buttons : CodeByte(0, i) = TILDE
    /\ calls = <<>>

\* the reserved characters, each with the key it stands for:
\* ! @ # $ % ^ & * ( ) _ + for F1..F12, E S C A T N B for Escape, Shift,
\* Control, Alt, Tab, Enter, Backspace, and U D L R for the arrows
ReservedKeys ==
    {<<33, KEY_F1>>, <<64, KEY_F2>>, <<35, KEY_F3>>, <<36, KEY_F4>>,
     <<37, KEY_F5>>, <<94, KEY_F6>>, <<38, KEY_F7>>, <<42, KEY_F8>>,
     <<40, KEY_F9>>, <<41, KEY_F10>>, <<95, KEY_F11>>, <<43, KEY_F12>>,
     <<69, KEY_ESC>>, <<83, KEY_LEFT_SHIFT>>, <<67, KEY_LEFT_CTRL>>,
     <<65, KEY_LEFT_ALT>>, <<84, KEY_TAB>>, <<78, KEY_RETURN>>,
     <<66, KEY_BACKSPACE>>, <<85, KEY_UP_ARROW>>, <<68, KEY_DOWN_ARROW>>,
     <<76, KEY_LEFT_ARROW>>, <<82, KEY_RIGHT_ARROW>>}

\* the key each reserved character stands for, as a table
DesignatedKey ==
    [c \in {p[1] : p \in ReservedKeys} |->
        CHOOSE k \in {p[2] : p \in ReservedKeys} : <<c, k>> \in ReservedKeys]

\* C11: each of the 23 reserved characters, at every button of every
\* configuration, is loaded as the key it stands for, a key identifier that
\* is no printable character and so never the character itself; 'U' is
\* loaded as the Up-arrow key.
C11_ReservedDecode ==
    /\ Cardinality(DOMAIN DesignatedKey) = 23
    /\ DesignatedKey[85] = 218
    /\ pc # "setup" =>
        \A j \in 0..(configCount - 1) : \A i \in Buttons :
            LET c == CodeByte(j, i) IN
            c \in DOMAIN DesignatedKey =>
                /\ mappings[j][i] = DesignatedKey[c]
                /\ mappings[j][i] # c
                /\ mappings[j][i] \notin 32..126

\* a line of 'U' has been loaded as Up-arrow at every button, the last
\* included, and a poll has pressed it
C11_Witness ==
    /\ pc = "readUp"
    /\ mapIndex = 0
    /\ \A i \in Buttons : CodeByte(0, i) = 85 /\ mappings[0][i] = 218
    /\ inputs = 4095
    /\ Len(calls) = SNES_NUM_BUTTONS
    /\ \A n \in 1..Len(calls) : calls[n].op = "press" /\ calls[n].arg = 218

----------------------------------------------------------------------------
(* Loading from a faulty SD card: claims *)

\* the places of loop()
LoopPlaces == {"poll", "readUp", "readDown", "waitDown", "waitUp"}

\* a file does not open, or the config file does not start with a digit
UnreadableCard ==
    \/ CONFIG_FILE_PATH \notin sdFiles
    \/ NAME_FILE_PATH \notin sdFiles
    \/ ReadByte(OpenFile(CONFIG_FILE_PATH), 1) \notin ASCII_ZERO..(ASCII_ZERO + 9)

\* C12: when the config file or the name file cannot be opened, or the
\* first byte of the config file is no digit, the load ends in a fatal
\* error: no count is derived from what was read, and loop() is never
\* entered.
C12_Original ==
    UnreadableCard => configCount = 0 /\ pc \notin LoopPlaces

\* the config file starts with a digit k, and holds fewer than twelve bytes
\* for one of its k lines, or the name file fewer than sixteen for one of its
\* k names
ShortCard ==
    LET cf == OpenFile(CONFIG_FILE_PATH)
        nf == OpenFile(NAME_FILE_PATH)
        b == ReadByte(cf, 1)
    IN  /\ b \in ASCII_ZERO..(ASCII_ZERO + 9)
        /\ \E j \in 0..(b - ASCII_ZERO - 1) :
            \/ Len(cf) < 3 + j * (SNES_NUM_BUTTONS + 2) + SNES_NUM_BUTTONS
            \/ Len(nf) < j * (LCD_COLS + 2) + LCD_COLS

\* the keys of the bytes that the config file holds
StreamKeys ==
    {ToByte(convertSpecialKey(configFile[n])) : n \in DOMAIN configFile}

\* C13: when the config file holds fewer than twelve bytes for a line, or
\* the name file fewer than sixteen for a name, the load fails fatally:
\* loop() is not entered, no configuration is put in the table, and no call
\* is made with a key that was not read from the config file.
C13_Original ==
    ShortCard =>
        /\ pc \notin LoopPlaces
        /\ mappings = <<>>
        /\ \A n \in DOMAIN calls :
            calls[n].sink = "keyboard" => calls[n].arg \in StreamKeys

----------------------------------------------------------------------------
(* Polls that repeat: claims *)

\* a step that is a poll of the controller
PollStep == pc = "poll" /\ pc' = "readUp"

\* button i gets a call under the mapping in use
Dispatched(i) == mapIndex = configCount \/ mappings[mapIndex][i] # TILDE

\* C14: nothing is held back for a button that has not changed: a poll that
\* reads the data of the poll before it, under the same mapping, makes the
\* same calls in the same order, with a press again for every mapped button
\* that is still down.
C14_NoEdgeSuppression ==
    [][PollStep /\ pollIndex = mapIndex /\ inputs' = inputs =>
        /\ calls' = calls
        /\ \A i \in Buttons :
            BitOf(inputs', i) = 1 /\ Dispatched(i) =>
                \E n \in 1..Len(calls') :
                    /\ calls'[n].btn = i
                    /\ calls'[n].op \in {"press", "setButton"}
                    /\ calls'[n].arg # 0]_vars

\* the twelve buttons, held over two polls under a configuration that maps
\* some of them, were pressed again by the second
C14_Witness ==
    /\ trace.repeat
    /\ pc = "readUp"
    /\ inputs = 4095
    /\ mapIndex < configCount
    /\ \E n \in 1..Len(calls) : calls[n].op = "press"

\* C18 as stated: the poll compares the data with that of the poll before
\* and makes a call only for a button whose bit has changed; a button whose
\* bit is the same gets no call.
C18_Original ==
    [][PollStep /\ pollIndex # -1 =>
        \A i \in Buttons :
            BitOf(inputs', i) = BitOf(inputs, i) =>
                \A n \in 1..Len(calls') : calls'[n].btn # i]_vars

\* C18: the poll compares nothing: a button whose bit is that of the poll
\* before gets its call all the same, exactly one when the mapping in use
\* dispatches the button, carrying the bit as read.
C18_Amended ==
    [][PollStep /\ pollIndex # -1 =>
        \A i \in Buttons :
            BitOf(inputs', i) = BitOf(inputs, i) /\ Dispatched(i) =>
                /\ Cardinality({n \in 1..Len(calls') : calls'[n].btn = i}) = 1
                /\ \A n \in 1..Len(calls') :
                    calls'[n].btn = i =>
                        (calls'[n].op = "release" \/ calls'[n].arg = 0)
                            <=> BitOf(inputs', i) = 0]_vars

\* a second poll in a row read every button released under the gamepad
\* mapping, and made its twelve calls again
C18_Witness ==
    /\ trace.repeat
    /\ pc = "readUp"
    /\ inputs = 0
    /\ mapIndex = configCount
    /\ Len(calls) = SNES_NUM_BUTTONS
    /\ \A n \in 1..Len(calls) : calls[n].sink = "gamepad" /\ calls[n].arg = 0

----------------------------------------------------------------------------
(* One press, one transition: claims *)

\* the places of the wait that ends loop()
WaitPlaces == {"waitDown", "waitUp"}

\* the wait of loop(): it is left for the next poll only past a read of
\* the down pin as released and then one of the up pin as released, and while
\* it lasts the mapping, the display, the data polled and the calls made stay
\* as they are; every transition leads into it
Blocked ==
    /\ pc = "waitDown" /\ pc' # pc => downBtn = HIGH /\ pc' = "waitUp"
    /\ pc = "waitUp" /\ pc' # pc =>
        IF upBtn = HIGH THEN pc' = "poll" ELSE pc' = "waitDown"
    /\ pc \in WaitPlaces =>
        /\ pc' \in WaitPlaces \union {"poll"}
        /\ UNCHANGED <<mapIndex, lcd, inputs, calls, pollIndex,
                       runDir, runStart, runLen>>
    /\ pc = "readUp" /\ upBtn = LOW /\ pc' # pc => pc' = "waitDown"
    /\ pc = "readDown" /\ pc' # pc => pc' = "waitDown"

\* C15 as stated: a press of a pushbutton, over however many reads of its
\* pin, changes the mapping exactly once; the loop then waits until both
\* pushbuttons read released, with no transition and no poll before that.
C15_Original ==
    [][/\ Blocked
       /\ upBtn = LOW /\ upBtn' = HIGH /\ trace.up # "unread" =>
            trace.up = "acted"
       /\ downBtn = LOW /\ downBtn' = HIGH /\ trace.down # "unread" =>
            trace.down = "acted"]_vars

\* C15: a press of a pushbutton, over however many reads of its pin, changes
\* the mapping at most once, and once if the read that follows the dispatch
\* finds it; from the transition on the loop waits for as long as the press
\* lasts, until both pushbuttons read released, with no transition and no
\* poll before that.
C15_Amended ==
    /\ [](/\ trace.up # "twice" /\ trace.down # "twice"
          /\ trace.up = "acted" => upBtn = LOW /\ pc \in WaitPlaces
          /\ trace.down = "acted" => downBtn = LOW /\ pc \in WaitPlaces)
    /\ [][/\ Blocked
          /\ pc = "readUp" /\ upBtn = LOW /\ pc' # pc =>
                trace'.up = "acted"
          /\ pc = "readDown" /\ downBtn = LOW /\ pc' # pc =>
                trace'.down = "acted"]_vars

\* the up pushbutton, still down, has moved the mapping from 0 to 1 and the
\* loop waits, while a press of the down pushbutton that began later has
\* only been read by the wait
C15_Witness ==
    /\ pc = "waitDown"
    /\ upBtn = LOW
    /\ trace.up = "acted"
    /\ trace.down = "read"
    /\ mapIndex = 1
    /\ runDir = "advance"
    /\ runLen = 1

----------------------------------------------------------------------------
(* The display: claims *)

\* a step of loop() that changes the mapping
TransitionStep ==
    \/ pc = "readUp" /\ upBtn = LOW /\ pc' # pc
    \/ pc = "readDown" /\ downBtn = LOW /\ pc' # pc

\* what the display is to show for slot j of a table of count
\* configurations: j, and line j of the name file or the gamepad's name
DisplayFor(j, count) ==
    [number |-> j,
     name |-> IF j = count THEN GAMEPAD_NAME
              ELSE SubSeq(nameFile, j * (LCD_COLS + 2) + 1,
                          j * (LCD_COLS + 2) + LCD_COLS)]

\* C16: the display is written by setup() and by every transition, and by
\* no other step; so at the start of every poll, and all through loop(), it
\* shows the number and the name of the mapping in use, the gamepad's name
\* for the gamepad slot.
C16_DisplayCurrent ==
    /\ [](pc \in LoopPlaces => lcd = DisplayFor(mapIndex, configCount))
    /\ [][/\ lcd' # lcd => pc = "setup" \/ TransitionStep
          /\ pc = "setup" /\ pc' # pc => lcd' = DisplayFor(0, configCount')
          /\ TransitionStep => lcd' = DisplayFor(mapIndex', configCount)]_vars

\* the next poll is due after a step down from 0 to the gamepad slot of a
\* table of three, and the display shows "USB Gamepad" under number 2
C16_Witness ==
    /\ pc = "poll"
    /\ configCount = 2
    /\ mapIndex = 2
    /\ runDir = "retreat"
    /\ runStart = 0
    /\ runLen = 1
    /\ lcd = [number |-> 2, name |-> GAMEPAD_NAME]

----------------------------------------------------------------------------
(* The table after the load: claims *)

\* C17: the SD card is read by setup() alone, before the first poll, and
\* setup() is not run again; no step of loop(), be it a poll, a transition,
\* a write of the display or a wait, changes the count of configurations,
\* the keys of a configuration or a name.
C17_TableFrozen ==
    /\ [](pc = "setup" =>
            pollIndex = -1 /\ calls = <<>> /\ mappings = <<>> /\ names = <<>>)
    /\ [][pc # "setup" =>
            /\ pc' # "setup"
            /\ UNCHANGED <<sdFiles, configFile, nameFile,
                           configCount, mappings, names>>]_vars

\* after polls under the gamepad slot and three transitions in a row, the
\* table of two configurations is the one the load gave
C17_Witness ==
    /\ pc = "waitDown"
    /\ runLen = 3
    /\ pollIndex = 2
    /\ inputs = 6746
    /\ Len(calls) = SNES_NUM_BUTTONS
    /\ configCount = 2
    /\ DeclaredCount = 2
    /\ DOMAIN names = 0..2
    /\ \A j \in 0..1 : \A i \in Buttons :
        mappings[j][i] = convertSpecialKey(CodeByte(j, i))

----------------------------------------------------------------------------
(* One transition in a loop(): claims *)

\* C20: a loop() makes one transition at most, and makes it after the
\* dispatch of all twelve buttons, which ran under the mapping in use when
\* the loop() began; when both pushbuttons read pressed, the up branch alone
\* is taken, and the index moves up by one modulo the size of the table.
C20_OneTransition ==
    /\ [](pc \in {"readUp", "readDown"} =>
            /\ pollIndex = mapIndex
            /\ \A i \in Buttons :
                Len(CallsFor(i)) = IF Dispatched(i) THEN 1 ELSE 0)
    /\ [][/\ pc' = "readUp" /\ pc' # pc => pc = "poll"
          /\ pc' = "readDown" /\ pc' # pc => pc = "readUp" /\ upBtn = HIGH
          /\ TransitionStep => pc' = "waitDown"
          /\ <<mapIndex, runDir, runStart, runLen>>'
                # <<mapIndex, runDir, runStart, runLen>> => TransitionStep
          /\ pc = "readUp" /\ upBtn = LOW /\ downBtn = LOW /\ pc' # pc =>
                /\ mapIndex' = (mapIndex + 1) % TableSize
                /\ runDir' = "advance"]_vars

\* with both pushbuttons down, the loop() that polled under mapping 0 has
\* made its one transition, up to mapping 1, and waits
C20_Witness ==
    /\ pc = "waitDown"
    /\ upBtn = LOW
    /\ downBtn = LOW
    /\ pollIndex = 0
    /\ mapIndex = 1
    /\ runDir = "advance"
    /\ runLen = 1
    /\ Len(calls) > 0

----------------------------------------------------------------------------
(* Keys held across a change of mapping: claims *)

\* C19: once a poll has read every button of the controller released, no
\* key is held at the keyboard and no button is set at the gamepad, those
\* pressed under a mapping that was in use before included.
C19_Original ==
    pc \in LoopPlaces /\ pollIndex # -1 /\ inputs = 0 =>
        held.keys = {} /\ held.buttons = {}

----------------------------------------------------------------------------
(* Progress of loop(): claims *)

\* both pushbuttons read released
BothReleased == upBtn = HIGH /\ downBtn = HIGH

\* the controller is polled, and its buttons dispatched, again and again:
\* "readUp" is the place a poll leads to
PollsForever == []<>(pc = "readUp")

\* C21 as stated: loop() has no last state, and if a pushbutton that is
\* pressed is always released in the end, the wait always ends and the
\* controller is polled and dispatched again and again.
C21_Original ==
    /\ [](pc # "setup" => pc \in LoopPlaces)
    /\ ((upBtn = LOW ~> upBtn = HIGH) /\ (downBtn = LOW ~> downBtn = HIGH))
            => PollsForever

\* C21: loop() has no last state and goes on: the poll and the reads of the
\* pushbuttons never stall; a wait during which both pushbuttons read
\* released ends, unless one is pressed first, so that the loop stalls only
\* while time after time a pushbutton reads pressed; and with the pushbuttons
\* left released from some time on, the controller is polled and dispatched
\* again and again.
C21_Amended ==
    /\ [](pc # "setup" => pc \in LoopPlaces)
    /\ (pc = "poll") ~> (pc = "readUp")
    /\ (pc \in {"readUp", "readDown"}) ~> (pc \in WaitPlaces)
    /\ (pc \in WaitPlaces /\ BothReleased) ~> (pc = "poll" \/ ~BothReleased)
    /\ <>[]BothReleased => PollsForever

\* the wait that followed a step up to mapping 1 has ended, and the
\* controller has been polled under mapping 1, the pushbuttons released
C21_Witness ==
    /\ pc = "readUp"
    /\ BothReleased
    /\ mapIndex = 1
    /\ pollIndex = 1
    /\ runDir = "advance"
    /\ runLen = 1
    /\ Len(calls) > 0

====
